---- MODULE Spec2Model ----
(***************************************************************************)
(* Model of cvxpy/expressions/expression.py: the Expression base class.    *)
(*                                                                         *)
(* The state is the object graph a caller sees: the heap of expression     *)
(* nodes (a node reference is its index in the heap), the constraints      *)
(* built by comparisons, and a record of the last call made on an          *)
(* expression.  The first `held` nodes are the operands the caller holds;  *)
(* the nodes after them were built by the last call (or by the chain of    *)
(* .T accesses or cast_to_const calls that led to it).  The caller drops   *)
(* the result of a call before the next one.                               *)
(***************************************************************************)
EXTENDS Integers, Sequences, FiniteSets, TLC

VARIABLES nodes, cons, held, last

vars == <<nodes, cons, held, last>>

\* Largest row or column count of an operand.
MaxDim == 2
\* Longest chain of .T accesses (a.T.T...) or of cast_to_const calls.
MaxChain == 2

Dims == 1..MaxDim

(***************************************************************************)
(* Values.  An argument of an operator is either an Expression (a          *)
(* reference into the heap) or a raw numeric value: a scalar, a NumPy 1-D  *)
(* array or a NumPy 2-D array.  sgn is the sign of the entries.            *)
(***************************************************************************)
Expr(i) == [tag |-> "expr", id |-> i]

Raw(r, c, s, d) == [tag |-> "raw", rows |-> r, cols |-> c, sgn |-> s, ndim |-> d]

RawValues ==
    {Raw(1, 1, s, 0) : s \in {0, 1}}
        \cup {Raw(n, 1, 1, 1) : n \in Dims}
        \cup {Raw(MaxDim, 1, 1, 2)}

None == [tag |-> "none"]

\* The keys of an index x[key]: an integer, a slice, or a special slice (a
\* key that selects by a boolean or fancy pattern).
Key(k) == [tag |-> "key", kind |-> k]

Keys == {Key(k) : k \in {"int", "slice", "special"}}

\* ku.is_special_slice(key)
is_special_slice(key) == key.kind = "special"

\* isinstance(expr, Expression)
isinstance_Expression(v) == v.tag = "expr"

(***************************************************************************)
(* Nodes.  A leaf is an instance of some subclass of Expression, which     *)
(* supplies the abstract methods: size, variables(), is_positive(),        *)
(* is_negative(), is_convex(), is_concave().                               *)
(***************************************************************************)
Leaf(r, c, vs, p, n, cvx, ccv) ==
    [cls |-> "leaf", args |-> <<>>, rows |-> r, cols |-> c, variables |-> vs,
     pos |-> p, neg |-> n, cvx |-> cvx, ccv |-> ccv]

\* types.constant()(value): the Constant node of a raw numeric value.
Constant(v) ==
    [cls |-> "constant", args |-> <<v>>, rows |-> v.rows, cols |-> v.cols,
     variables |-> {}, pos |-> (v.sgn >= 0), neg |-> (v.sgn <= 0),
     cvx |-> TRUE, ccv |-> TRUE, is_1D_array |-> (v.ndim = 1)]

\* A node built by the constructor of another class: types.add_expr()(...),
\* types.mul_expr()(...), EqConstraint(...), ...
Built(cls, args) == [cls |-> cls, args |-> args]

\* The classification a node answers with.  A transpose node answers with
\* its argument's classification and the swapped shape.
RECURSIVE Attr(_, _)
Attr(h, i) ==
    IF h[i].cls = "transpose"
    THEN LET a == Attr(h, h[i].args[1].id)
         IN  [a EXCEPT !.rows = a.cols, !.cols = a.rows]
    ELSE h[i]

size(h, i) == <<Attr(h, i).rows, Attr(h, i).cols>>

variables(h, i) == Attr(h, i).variables

is_positive(h, i) == Attr(h, i).pos

is_negative(h, i) == Attr(h, i).neg

is_convex(h, i) == Attr(h, i).cvx

is_concave(h, i) == Attr(h, i).ccv

\* isinstance(self, types.constant())
isinstance_constant(h, i) == h[i].cls = "constant"

(***************************************************************************)
(* Curvature and sign properties.                                          *)
(***************************************************************************)
is_zero(h, i) == is_positive(h, i) /\ is_negative(h, i)

is_constant(h, i) == Cardinality(variables(h, i)) = 0 \/ is_zero(h, i)

is_affine(h, i) == is_constant(h, i) \/ (is_convex(h, i) /\ is_concave(h, i))

\* A faulty curvature that tests is_convex before is_affine; C2 rejects it.
curvature_convex_first(h, i) ==
    IF is_constant(h, i) THEN "CONSTANT"
    ELSE IF is_convex(h, i) THEN "CONVEX"
    ELSE IF is_affine(h, i) THEN "AFFINE"
    ELSE IF is_concave(h, i) THEN "CONCAVE"
    ELSE "UNKNOWN"

curvature(h, i) ==
    IF is_constant(h, i) THEN "CONSTANT"
    ELSE IF is_affine(h, i) THEN "AFFINE"
    ELSE IF is_convex(h, i) THEN "CONVEX"
    ELSE IF is_concave(h, i) THEN "CONCAVE"
    ELSE "UNKNOWN"

is_dcp(h, i) == is_convex(h, i) \/ is_concave(h, i)

\* A faulty sign that tests is_positive before is_zero; C9 rejects it.
sign_positive_first(h, i) ==
    IF is_positive(h, i) THEN "POSITIVE"
    ELSE IF is_zero(h, i) THEN "ZERO"
    ELSE IF is_negative(h, i) THEN "NEGATIVE"
    ELSE "UNKNOWN"

sign(h, i) ==
    IF is_zero(h, i) THEN "ZERO"
    ELSE IF is_positive(h, i) THEN "POSITIVE"
    ELSE IF is_negative(h, i) THEN "NEGATIVE"
    ELSE "UNKNOWN"

is_scalar(h, i) == size(h, i) = <<1, 1>>

\* min(self.size) == 1
is_vector(h, i) ==
    (IF size(h, i)[1] <= size(h, i)[2] THEN size(h, i)[1] ELSE size(h, i)[2]) = 1

is_matrix(h, i) == size(h, i)[1] > 1 /\ size(h, i)[2] > 1

(***************************************************************************)
(* Results of a call: the heap and constraints after it, whether it        *)
(* returned or raised, and what it returned.                               *)
(***************************************************************************)
Returned(h, c, kind, ref) ==
    [nodes |-> h, cons |-> c, status |-> "ok", kind |-> kind, ref |-> ref]

\* raise DCPError(...)
Raised(h, c) ==
    [nodes |-> h, cons |-> c, status |-> "DCPError", kind |-> "none", ref |-> 0]

\* types.<cls>()(args): a call of another node class's constructor.
New(h, c, cls, args) ==
    Returned(Append(h, Built(cls, args)), c, "node", Len(h) + 1)

\* EqConstraint(a, b), LeqConstraint(a, b), PSDConstraint(a, b)
NewConstraint(h, c, cls, a, b) ==
    Returned(h, Append(c, Built(cls, <<Expr(a), Expr(b)>>)), "constraint", Len(c) + 1)

(***************************************************************************)
(* The operators of Expression.  Each takes the heap h, the constraints c, *)
(* the receiver self (a node reference) and its argument, and gives the    *)
(* result of the call.                                                     *)
(***************************************************************************)

\* A faulty T that builds a transpose node for a scalar too; C8 rejects it.
T_always_new(h, self) ==
    [nodes |-> Append(h, Built("transpose", <<Expr(self)>>)), ref |-> Len(h) + 1]

\* Expression.T
T(h, self) ==
    IF is_scalar(h, self)
    THEN [nodes |-> h, ref |-> self]
    ELSE [nodes |-> Append(h, Built("transpose", <<Expr(self)>>)), ref |-> Len(h) + 1]

\* Expression.__getitem__: the index node of self and key, built by
\* types.index().get_special_slice for a special slice and by the
\* constructor of types.index() for any other key.
__getitem__(h, c, self, key) ==
    IF is_special_slice(key)
    THEN New(h, c, "index.get_special_slice", <<Expr(self), key>>)
    ELSE New(h, c, "index", <<Expr(self), key>>)

\* Expression.__pow__: not wrapped by _cast_other.
__pow__(h, c, self, power) == New(h, c, "power", <<Expr(self), power>>)

\* A faulty cast_to_const that returns a copy of an Expression instead of
\* the Expression itself; C6 rejects it.
cast_to_const_copy(h, expr) ==
    IF isinstance_Expression(expr)
    THEN [nodes |-> Append(h, h[expr.id]), val |-> Expr(Len(h) + 1)]
    ELSE [nodes |-> Append(h, Constant(expr)), val |-> Expr(Len(h) + 1)]

\* Expression.cast_to_const
cast_to_const(h, expr) ==
    IF isinstance_Expression(expr)
    THEN [nodes |-> h, val |-> expr]
    ELSE [nodes |-> Append(h, Constant(expr)), val |-> Expr(Len(h) + 1)]

\* The decorator: cast_op(self, other) casts other, then calls binary_op on
\* the heap the cast leaves and the Expression it returns.
_cast_other(h, self, other) == cast_to_const(h, other)

\* Expression.__neg__
__neg__(h, c, self) == New(h, c, "neg_expr", <<Expr(self)>>)

add_body(h, c, self, other) == New(h, c, "add_expr", <<Expr(self), Expr(other)>>)

__add__(h, c, self, other) ==
    LET k == _cast_other(h, self, other)
    IN  add_body(k.nodes, c, self, k.val.id)

\* other + self
radd_body(h, c, self, other) == __add__(h, c, other, Expr(self))

__radd__(h, c, self, other) ==
    LET k == _cast_other(h, self, other)
    IN  radd_body(k.nodes, c, self, k.val.id)

\* self + -other
sub_body(h, c, self, other) ==
    LET n == __neg__(h, c, other)
    IN  __add__(n.nodes, n.cons, self, Expr(n.ref))

__sub__(h, c, self, other) ==
    LET k == _cast_other(h, self, other)
    IN  sub_body(k.nodes, c, self, k.val.id)

\* other - self
rsub_body(h, c, self, other) == __sub__(h, c, other, Expr(self))

__rsub__(h, c, self, other) ==
    LET k == _cast_other(h, self, other)
    IN  rsub_body(k.nodes, c, self, k.val.id)

\* A faulty __mul__ that raises when either operand is non-constant; C3
\* rejects it.
mul_body_either(h, c, self, other) ==
    IF ~is_constant(h, self) \/ ~is_constant(h, other)
    THEN Raised(h, c)
    ELSE IF is_constant(h, self)
    THEN IF /\ size(h, self)[1] = size(h, other)[1]
            /\ size(h, self)[2] # size(h, self)[1]
            /\ isinstance_constant(h, self)
            /\ h[self].is_1D_array
         THEN LET t == T(h, self)
              IN  New(t.nodes, c, "mul_expr", <<Expr(t.ref), Expr(other)>>)
         ELSE New(h, c, "mul_expr", <<Expr(self), Expr(other)>>)
    ELSE IF is_scalar(h, self) \/ is_scalar(h, other)
    THEN New(h, c, "mul_expr", <<Expr(other), Expr(self)>>)
    ELSE New(h, c, "rmul_expr", <<Expr(self), Expr(other)>>)

\* A faulty __mul__ that leaves the constant on the right when an operand
\* is scalar; C5 rejects it.
mul_body_unswapped(h, c, self, other) ==
    IF ~is_constant(h, self) /\ ~is_constant(h, other)
    THEN Raised(h, c)
    ELSE IF is_constant(h, self)
    THEN IF /\ size(h, self)[1] = size(h, other)[1]
            /\ size(h, self)[2] # size(h, self)[1]
            /\ isinstance_constant(h, self)
            /\ h[self].is_1D_array
         THEN LET t == T(h, self)
              IN  New(t.nodes, c, "mul_expr", <<Expr(t.ref), Expr(other)>>)
         ELSE New(h, c, "mul_expr", <<Expr(self), Expr(other)>>)
    ELSE IF is_scalar(h, self) \/ is_scalar(h, other)
    THEN New(h, c, "mul_expr", <<Expr(self), Expr(other)>>)
    ELSE New(h, c, "rmul_expr", <<Expr(self), Expr(other)>>)

\* A faulty __mul__ that transposes a Constant that is no 1-D array; C10
\* rejects it.
mul_body_any_array(h, c, self, other) ==
    IF ~is_constant(h, self) /\ ~is_constant(h, other)
    THEN Raised(h, c)
    ELSE IF is_constant(h, self)
    THEN IF /\ size(h, self)[1] = size(h, other)[1]
            /\ size(h, self)[2] # size(h, self)[1]
            /\ isinstance_constant(h, self)
            /\ TRUE
         THEN LET t == T(h, self)
              IN  New(t.nodes, c, "mul_expr", <<Expr(t.ref), Expr(other)>>)
         ELSE New(h, c, "mul_expr", <<Expr(self), Expr(other)>>)
    ELSE IF is_scalar(h, self) \/ is_scalar(h, other)
    THEN New(h, c, "mul_expr", <<Expr(other), Expr(self)>>)
    ELSE New(h, c, "rmul_expr", <<Expr(self), Expr(other)>>)

mul_body(h, c, self, other) ==
    IF ~is_constant(h, self) /\ ~is_constant(h, other)
    THEN Raised(h, c)
    ELSE IF is_constant(h, self)
    THEN IF /\ size(h, self)[1] = size(h, other)[1]
            /\ size(h, self)[2] # size(h, self)[1]
            /\ isinstance_constant(h, self)
            /\ h[self].is_1D_array
         THEN LET t == T(h, self)
              IN  New(t.nodes, c, "mul_expr", <<Expr(t.ref), Expr(other)>>)
         ELSE New(h, c, "mul_expr", <<Expr(self), Expr(other)>>)
    ELSE IF is_scalar(h, self) \/ is_scalar(h, other)
    THEN New(h, c, "mul_expr", <<Expr(other), Expr(self)>>)
    ELSE New(h, c, "rmul_expr", <<Expr(self), Expr(other)>>)

__mul__(h, c, self, other) ==
    LET k == _cast_other(h, self, other)
    IN  mul_body(k.nodes, c, self, k.val.id)

\* A faulty __div__ that divides by any constant, scalar or not; C4 rejects
\* it.
div_body_any_constant(h, c, self, other) ==
    IF is_constant(h, other)
    THEN New(h, c, "div_expr", <<Expr(self), Expr(other)>>)
    ELSE Raised(h, c)

div_body(h, c, self, other) ==
    IF is_constant(h, other) /\ is_scalar(h, other)
    THEN New(h, c, "div_expr", <<Expr(self), Expr(other)>>)
    ELSE Raised(h, c)

__div__(h, c, self, other) ==
    LET k == _cast_other(h, self, other)
    IN  div_body(k.nodes, c, self, k.val.id)

\* self.__div__(other)
truediv_body(h, c, self, other) == __div__(h, c, self, Expr(other))

__truediv__(h, c, self, other) ==
    LET k == _cast_other(h, self, other)
    IN  truediv_body(k.nodes, c, self, k.val.id)

\* other / self: the / operator calls __truediv__ (__div__ before Python 3,
\* which __truediv__ delegates to).
rdiv_body(h, c, self, other) == __truediv__(h, c, other, Expr(self))

__rdiv__(h, c, self, other) ==
    LET k == _cast_other(h, self, other)
    IN  rdiv_body(k.nodes, c, self, k.val.id)

__rtruediv__(h, c, self, other) ==
    LET k == _cast_other(h, self, other)
    IN  rdiv_body(k.nodes, c, self, k.val.id)

\* other * self
rmul_body(h, c, self, other) == __mul__(h, c, other, Expr(self))

__rmul__(h, c, self, other) ==
    LET k == _cast_other(h, self, other)
    IN  rmul_body(k.nodes, c, self, k.val.id)

rshift_body(h, c, self, other) == NewConstraint(h, c, "PSDConstraint", self, other)

__rshift__(h, c, self, other) ==
    LET k == _cast_other(h, self, other)
    IN  rshift_body(k.nodes, c, self, k.val.id)

rrshift_body(h, c, self, other) == NewConstraint(h, c, "PSDConstraint", other, self)

__rrshift__(h, c, self, other) ==
    LET k == _cast_other(h, self, other)
    IN  rrshift_body(k.nodes, c, self, k.val.id)

lshift_body(h, c, self, other) == NewConstraint(h, c, "PSDConstraint", other, self)

__lshift__(h, c, self, other) ==
    LET k == _cast_other(h, self, other)
    IN  lshift_body(k.nodes, c, self, k.val.id)

rlshift_body(h, c, self, other) == NewConstraint(h, c, "PSDConstraint", self, other)

__rlshift__(h, c, self, other) ==
    LET k == _cast_other(h, self, other)
    IN  rlshift_body(k.nodes, c, self, k.val.id)

eq_body(h, c, self, other) == NewConstraint(h, c, "EqConstraint", self, other)

__eq__(h, c, self, other) ==
    LET k == _cast_other(h, self, other)
    IN  eq_body(k.nodes, c, self, k.val.id)

le_body(h, c, self, other) == NewConstraint(h, c, "LeqConstraint", self, other)

__le__(h, c, self, other) ==
    LET k == _cast_other(h, self, other)
    IN  le_body(k.nodes, c, self, k.val.id)

\* self <= other
__lt__(h, c, self, other) == __le__(h, c, self, other)

\* A faulty __ge__ that does not reflect its operands; C7 rejects it.
ge_body_unreflected(h, c, self, other) == __le__(h, c, self, Expr(other))

\* other.__le__(self)
ge_body(h, c, self, other) == __le__(h, c, other, Expr(self))

__ge__(h, c, self, other) ==
    LET k == _cast_other(h, self, other)
    IN  ge_body(k.nodes, c, self, k.val.id)

\* self >= other
__gt__(h, c, self, other) == __ge__(h, c, self, other)

(***************************************************************************)
(* The state machine.                                                      *)
(***************************************************************************)

\* The variables x of an expression: none, or one.
VariableSets == {{}, {"x"}}

\* Every classification a subclass of Expression can give a node, and the
\* constants of the raw values.
Expressions ==
    {Leaf(r, c, vs, p, n, cvx, ccv) :
        r \in Dims, c \in Dims, vs \in VariableSets,
        p \in BOOLEAN, n \in BOOLEAN, cvx \in BOOLEAN, ccv \in BOOLEAN}
        \cup {Constant(v) : v \in RawValues}

\* The operands of the arithmetic and comparison operators: these read an
\* operand's size, variables(), is_zero() and class only, so the operands
\* are the affine leaves of sign ZERO or UNKNOWN and the constants.
OperandExpressions ==
    {e \in Expressions : e.cvx /\ e.ccv /\ (e.cls = "leaf" => e.pos = e.neg)}

NoCall ==
    [op |-> "none", self |-> 0, other |-> None, status |-> "none",
     kind |-> "none", ref |-> 0, val |-> None]

\* The caller holds two expressions x and y.
Init ==
    /\ \E x \in OperandExpressions, y \in OperandExpressions : nodes = <<x, y>>
    /\ cons = <<>>
    /\ held = 2
    /\ last = NoCall

\* The caller holds one expression.
InitLattice ==
    /\ \E x \in Expressions : nodes = <<x>>
    /\ cons = <<>>
    /\ held = 1
    /\ last = NoCall

\* The caller holds its operands only: no result of a call is live.
Idle == last = NoCall

\* The arguments a call can be given: a held expression or a raw value.
Arguments == {Expr(i) : i \in 1..held} \cup RawValues

\* A call of an operator with result r.
Call(op, self, other, r) ==
    /\ nodes' = r.nodes
    /\ cons' = r.cons
    /\ last' = [op |-> op, self |-> self, other |-> other, status |-> r.status,
                kind |-> r.kind, ref |-> r.ref, val |-> None]
    /\ UNCHANGED held

\* A query of a property with value v.
Query(op, self, v) ==
    /\ Idle
    /\ last' = [op |-> op, self |-> self, other |-> None, status |-> "ok",
                kind |-> "value", ref |-> 0, val |-> v]
    /\ UNCHANGED <<nodes, cons, held>>

Curvature(self) == Query("curvature", self, curvature(nodes, self))

Sign(self) == Query("sign", self, sign(nodes, self))

IsDcp(self) == Query("is_dcp", self, is_dcp(nodes, self))

IsVector(self) == Query("is_vector", self, is_vector(nodes, self))

IsMatrix(self) == Query("is_matrix", self, is_matrix(nodes, self))

\* self.T, on a held expression or on the result of the preceding .T
\* (a.T.T), whose chain of transposes is then kept.
Transpose(self) ==
    /\ \/ Idle /\ self <= held
       \/ /\ last.op = "T"
          /\ self = last.ref
          /\ Len(nodes) - held < MaxChain
    /\ LET t == T(nodes, self)
       IN  Call("T", self, None, Returned(t.nodes, cons, "node", t.ref))

\* Expression.cast_to_const(expr), on an argument or on the result of the
\* preceding cast_to_const, which is then kept.
CastToConst(expr) ==
    /\ \/ Idle /\ expr \in Arguments
       \/ /\ last.op = "cast_to_const"
          /\ expr = Expr(last.ref)
    /\ LET k == cast_to_const(nodes, expr)
       IN  Call("cast_to_const", 0, expr, Returned(k.nodes, cons, "node", k.val.id))

Neg(self) == Idle /\ Call("__neg__", self, None, __neg__(nodes, cons, self))

GetItem(self, key) ==
    Idle /\ Call("__getitem__", self, key, __getitem__(nodes, cons, self, key))

Pow(self, power) ==
    Idle /\ Call("__pow__", self, power, __pow__(nodes, cons, self, power))

Add(self, other) ==
    Idle /\ Call("__add__", self, other, __add__(nodes, cons, self, other))

Radd(self, other) ==
    Idle /\ Call("__radd__", self, other, __radd__(nodes, cons, self, other))

Sub(self, other) ==
    Idle /\ Call("__sub__", self, other, __sub__(nodes, cons, self, other))

Rsub(self, other) ==
    Idle /\ Call("__rsub__", self, other, __rsub__(nodes, cons, self, other))

Mul(self, other) ==
    Idle /\ Call("__mul__", self, other, __mul__(nodes, cons, self, other))

Rmul(self, other) ==
    Idle /\ Call("__rmul__", self, other, __rmul__(nodes, cons, self, other))

Div(self, other) ==
    Idle /\ Call("__div__", self, other, __div__(nodes, cons, self, other))

Truediv(self, other) ==
    Idle /\ Call("__truediv__", self, other, __truediv__(nodes, cons, self, other))

Rdiv(self, other) ==
    Idle /\ Call("__rdiv__", self, other, __rdiv__(nodes, cons, self, other))

Rtruediv(self, other) ==
    Idle /\ Call("__rtruediv__", self, other, __rtruediv__(nodes, cons, self, other))

Rshift(self, other) ==
    Idle /\ Call("__rshift__", self, other, __rshift__(nodes, cons, self, other))

Rrshift(self, other) ==
    Idle /\ Call("__rrshift__", self, other, __rrshift__(nodes, cons, self, other))

Lshift(self, other) ==
    Idle /\ Call("__lshift__", self, other, __lshift__(nodes, cons, self, other))

Rlshift(self, other) ==
    Idle /\ Call("__rlshift__", self, other, __rlshift__(nodes, cons, self, other))

Eq(self, other) ==
    Idle /\ Call("__eq__", self, other, __eq__(nodes, cons, self, other))

Le(self, other) ==
    Idle /\ Call("__le__", self, other, __le__(nodes, cons, self, other))

Lt(self, other) ==
    Idle /\ Call("__lt__", self, other, __lt__(nodes, cons, self, other))

Ge(self, other) ==
    Idle /\ Call("__ge__", self, other, __ge__(nodes, cons, self, other))

Gt(self, other) ==
    Idle /\ Call("__gt__", self, other, __gt__(nodes, cons, self, other))

\* The caller drops the result of the last call.
Drop ==
    /\ ~Idle
    /\ nodes' = SubSeq(nodes, 1, held)
    /\ cons' = <<>>
    /\ last' = NoCall
    /\ UNCHANGED held

\* The receiver of a call is the first held expression, x; its argument is
\* x, y or a raw value.
Next ==
    \/ Drop
    \/ \E self \in 1..Len(nodes) : Transpose(self)
    \/ \E expr \in Arguments \cup {Expr(i) : i \in 1..Len(nodes)} : CastToConst(expr)
    \/ Neg(1)
    \/ \E key \in Keys : GetItem(1, key)
    \/ \E power \in Arguments : Pow(1, power)
    \/ \E other \in Arguments : Add(1, other)
    \/ \E other \in Arguments : Radd(1, other)
    \/ \E other \in Arguments : Sub(1, other)
    \/ \E other \in Arguments : Rsub(1, other)
    \/ \E other \in Arguments : Mul(1, other)
    \/ \E other \in Arguments : Rmul(1, other)
    \/ \E other \in Arguments : Div(1, other)
    \/ \E other \in Arguments : Truediv(1, other)
    \/ \E other \in Arguments : Rdiv(1, other)
    \/ \E other \in Arguments : Rtruediv(1, other)
    \/ \E other \in Arguments : Rshift(1, other)
    \/ \E other \in Arguments : Rrshift(1, other)
    \/ \E other \in Arguments : Lshift(1, other)
    \/ \E other \in Arguments : Rlshift(1, other)
    \/ \E other \in Arguments : Eq(1, other)
    \/ \E other \in Arguments : Le(1, other)
    \/ \E other \in Arguments : Lt(1, other)
    \/ \E other \in Arguments : Ge(1, other)
    \/ \E other \in Arguments : Gt(1, other)

NextLattice ==
    \/ Drop
    \/ \E self \in 1..held : Curvature(self) \/ Sign(self) \/ IsDcp(self)
    \/ \E self \in 1..held : IsVector(self) \/ IsMatrix(self)

Spec == Init /\ [][Next]_vars

SpecLattice == InitLattice /\ [][NextLattice]_vars

(***************************************************************************)
(* Properties.  They read the record of the last call: its receiver, its  *)
(* argument, what it returned and the nodes it built (those after the     *)
(* held ones).                                                             *)
(***************************************************************************)

\* The nodes built by the last call.
NewNodes == (held + 1)..Len(nodes)

NewOfClass(classes) == {i \in NewNodes : nodes[i].cls \in classes}

\* The argument of the last call after the cast: itself when it is an
\* Expression, else the Constant built for it, the first new node.
Arg == IF last.other.tag = "expr" THEN last.other.id ELSE held + 1

\* The nodes a call with a raw argument builds besides its own: the Constant.
CastNodes == IF last.other.tag = "raw" THEN 1 ELSE 0

MulCall == last.op \in {"__mul__", "__rmul__"}

\* The operands of the product a * b of the last call.
MulLeft == IF last.op = "__mul__" THEN last.self ELSE Arg

MulRight == IF last.op = "__mul__" THEN Arg ELSE last.self

DivCall == last.op \in {"__div__", "__truediv__", "__rdiv__", "__rtruediv__"}

\* The operands of the quotient a / b of the last call.
Dividend == IF last.op \in {"__div__", "__truediv__"} THEN last.self ELSE Arg

Divisor == IF last.op \in {"__div__", "__truediv__"} THEN Arg ELSE last.self

\* The node the last call returned, and the operands it was built over.
Result == nodes[last.ref]

LeftOf(n) == n.args[1].id

RightOf(n) == n.args[2].id

\* C1: a node for which is_constant holds has curvature CONSTANT and is_dcp
\* true, whatever its is_convex and is_concave return.
C1_ConstantIsDcp ==
    /\ (last.op = "curvature" /\ is_constant(nodes, last.self))
          => last.val = "CONSTANT"
    /\ (last.op = "is_dcp" /\ is_constant(nodes, last.self))
          => last.val = TRUE

\* C2: curvature is exactly one of the five values, the first that holds of
\* constant, affine, convex, concave: AFFINE iff not constant and both convex
\* and concave, UNKNOWN iff not constant and neither.
C2_CurvaturePriority ==
    last.op = "curvature" =>
        LET n == nodes[last.self]
            k == n.variables = {} \/ (n.pos /\ n.neg)
        IN  /\ last.val \in {"CONSTANT", "AFFINE", "CONVEX", "CONCAVE", "UNKNOWN"}
            /\ last.val = "CONSTANT" <=> k
            /\ last.val = "AFFINE" <=> (~k /\ n.cvx /\ n.ccv)
            /\ last.val = "CONVEX" <=> (~k /\ n.cvx /\ ~n.ccv)
            /\ last.val = "CONCAVE" <=> (~k /\ ~n.cvx /\ n.ccv)
            /\ last.val = "UNKNOWN" <=> (~k /\ ~n.cvx /\ ~n.ccv)

C2_Witness ==
    /\ last.op = "curvature"
    /\ last.val = "AFFINE"
    /\ nodes[last.self].variables # {}

\* C3: a * b raises DCPError and builds no node iff neither a nor b is
\* constant; otherwise it builds exactly one product node and returns it.
C3_MulRaisesIffNoConstant ==
    MulCall =>
        /\ last.status = "DCPError"
              <=> (~is_constant(nodes, MulLeft) /\ ~is_constant(nodes, MulRight))
        /\ last.status = "DCPError" =>
              /\ last.kind = "none"
              /\ Len(nodes) = held + CastNodes
        /\ last.status # "DCPError" =>
              /\ last.status = "ok"
              /\ last.kind = "node"
              /\ NewOfClass({"mul_expr", "rmul_expr"}) = {last.ref}

C3_Witness ==
    /\ last.op = "__mul__"
    /\ last.status = "DCPError"
    /\ last.other = Expr(2)

\* C4: a / b builds a division node over (a, b) iff b is constant and of
\* shape (1,1); otherwise it raises DCPError and builds no node.
C4_DivOnlyByScalarConstant ==
    DivCall =>
        /\ last.status = "ok"
              <=> (is_constant(nodes, Divisor) /\ size(nodes, Divisor) = <<1, 1>>)
        /\ last.status = "ok" =>
              /\ last.kind = "node"
              /\ NewOfClass({"div_expr"}) = {last.ref}
              /\ Result = Built("div_expr", <<Expr(Dividend), Expr(Divisor)>>)
        /\ last.status # "ok" =>
              /\ last.status = "DCPError"
              /\ last.kind = "none"
              /\ Len(nodes) = held + CastNodes

C4_Witness ==
    /\ last.op = "__rtruediv__"
    /\ last.status = "DCPError"
    /\ is_constant(nodes, Divisor)
    /\ ~is_scalar(nodes, Divisor)

\* A product was built and exactly one of its two operands is scalar.
OneScalarProduct ==
    /\ MulCall
    /\ last.status = "ok"
    /\ is_scalar(nodes, MulLeft) # is_scalar(nodes, MulRight)

\* C5: when a * b succeeds and exactly one operand is scalar, the product
\* node has the scalar operand on the left.
C5_ScalarOnLeft ==
    OneScalarProduct => is_scalar(nodes, LeftOf(Result))

\* C5, amended: when a * b succeeds and exactly one operand is scalar, the
\* product node has a constant operand on the left, a (or its transpose)
\* when a is constant and b otherwise, so the scalar is on the left exactly
\* when it is that operand.
C5_ConstantOnLeft ==
    OneScalarProduct =>
        /\ Result.cls = "mul_expr"
        /\ is_constant(nodes, LeftOf(Result))
        /\ IF is_constant(nodes, MulLeft)
           THEN /\ \/ LeftOf(Result) = MulLeft
                   \/ nodes[LeftOf(Result)] = Built("transpose", <<Expr(MulLeft)>>)
                /\ RightOf(Result) = MulRight
                /\ is_scalar(nodes, LeftOf(Result)) <=> is_scalar(nodes, MulLeft)
           ELSE /\ LeftOf(Result) = MulRight
                /\ RightOf(Result) = MulLeft
                /\ is_scalar(nodes, LeftOf(Result)) <=> is_scalar(nodes, MulRight)

C5_Witness ==
    /\ OneScalarProduct
    /\ ~is_constant(nodes, MulLeft)
    /\ is_scalar(nodes, MulLeft)
    /\ LeftOf(Result) = MulRight

\* Every argument a constructor of the last call received is an Expression.
OnlyExpressions(built) == \A k \in 1..Len(built.args) : built.args[k].tag = "expr"

\* cast_to_const gives back the very Expression it is given, and a new
\* Constant for a raw value; a wrapped operator builds one Constant for a
\* raw argument, however many times the argument is cast on the way.
CastIsIdentityOnExpressions ==
    /\ last.op = "cast_to_const" =>
          IF last.other.tag = "expr"
          THEN last.ref = last.other.id
          ELSE last.ref = held + 1 /\ Result = Constant(last.other)
    /\ last.op = "cast_to_const" => Cardinality(NewOfClass({"constant"})) <= 1
    /\ last.op \notin {"none", "cast_to_const", "__pow__"} =>
          Cardinality(NewOfClass({"constant"})) = CastNodes

\* C6: every binary operator, power included, casts its right operand
\* before a composition rule or a constraint receives it; cast_to_const
\* returns an Expression unchanged.
C6_EveryOperandCast ==
    /\ \A i \in NewOfClass({"add_expr", "neg_expr", "mul_expr", "rmul_expr",
                            "div_expr", "power", "transpose"}) :
          OnlyExpressions(nodes[i])
    /\ \A j \in 1..Len(cons) : OnlyExpressions(cons[j])
    /\ CastIsIdentityOnExpressions

\* C6, amended: every binary operator other than power casts its right
\* operand before a composition rule or a constraint receives it, and
\* cast_to_const returns an Expression unchanged; the power operator hands
\* its exponent to the power rule as it was given, uncast.
C6_EveryOperandCastButPower ==
    /\ \A i \in NewOfClass({"add_expr", "neg_expr", "mul_expr", "rmul_expr",
                            "div_expr", "transpose"}) :
          OnlyExpressions(nodes[i])
    /\ \A j \in 1..Len(cons) : OnlyExpressions(cons[j])
    /\ CastIsIdentityOnExpressions
    /\ last.op \notin {"none", "__pow__", "cast_to_const", "T", "__neg__"} =>
          /\ last.status = "ok" => last.kind \in {"node", "constraint"}
          /\ last.other.tag = "raw" => nodes[held + 1] = Constant(last.other)
    /\ last.op = "__pow__" =>
          /\ Result = Built("power", <<Expr(last.self), last.other>>)
          /\ Len(nodes) = held + 1

C6_Witness ==
    /\ last.op = "__rsub__"
    /\ last.other.tag = "raw"
    /\ Len(nodes) = held + 3

\* C7: a == b is EqConstraint(a, cast(b)); a <= b and a < b are
\* LeqConstraint(a, cast(b)); a >= b and a > b are LeqConstraint(cast(b), a);
\* a comparison never yields a node or another kind of constraint.
C7_Comparisons ==
    last.op \in {"__eq__", "__le__", "__lt__", "__ge__", "__gt__"} =>
        /\ last.status = "ok"
        /\ last.kind = "constraint"
        /\ last.ref = 1
        /\ Len(nodes) = held + CastNodes
        /\ cons = << CASE last.op = "__eq__" ->
                            Built("EqConstraint", <<Expr(last.self), Expr(Arg)>>)
                       [] last.op \in {"__le__", "__lt__"} ->
                            Built("LeqConstraint", <<Expr(last.self), Expr(Arg)>>)
                       [] last.op \in {"__ge__", "__gt__"} ->
                            Built("LeqConstraint", <<Expr(Arg), Expr(last.self)>>) >>

C7_Witness ==
    /\ last.op = "__gt__"
    /\ last.other.tag = "raw"
    /\ cons[1].args = <<Expr(held + 1), Expr(last.self)>>

\* C8: a.T is a itself when a has shape (1,1) and a new transpose node over
\* a otherwise; a.T.T has the dimensions of a.
C8_Transpose ==
    /\ last.op = "T" =>
          /\ last.status = "ok"
          /\ IF size(nodes, last.self) = <<1, 1>>
             THEN last.ref = last.self /\ NewNodes = {}
             ELSE /\ last.ref = Len(nodes)
                  /\ last.ref > held
                  /\ last.ref # last.self
                  /\ Result = Built("transpose", <<Expr(last.self)>>)
    /\ \A i \in NewOfClass({"transpose"}) :
          nodes[LeftOf(nodes[i])].cls = "transpose" =>
              size(nodes, i) = size(nodes, LeftOf(nodes[LeftOf(nodes[i])]))

C8_Witness ==
    /\ last.op = "T"
    /\ last.self > held
    /\ Len(nodes) = held + 2
    /\ size(nodes, last.ref) = size(nodes, 1)
    /\ size(nodes, last.ref) # size(nodes, last.self)

\* C9: sign is ZERO iff both is_positive and is_negative hold, POSITIVE iff
\* only is_positive, NEGATIVE iff only is_negative, UNKNOWN iff neither.
C9_Sign ==
    last.op = "sign" =>
        LET n == nodes[last.self]
        IN  /\ last.val \in {"ZERO", "POSITIVE", "NEGATIVE", "UNKNOWN"}
            /\ last.val = "ZERO" <=> (n.pos /\ n.neg)
            /\ last.val = "POSITIVE" <=> (n.pos /\ ~n.neg)
            /\ last.val = "NEGATIVE" <=> (~n.pos /\ n.neg)
            /\ last.val = "UNKNOWN" <=> (~n.pos /\ ~n.neg)

C9_Witness ==
    /\ last.op = "sign"
    /\ last.val = "ZERO"
    /\ nodes[last.self].variables # {}

\* The workaround of __mul__ applies to a * b: a has as many rows as b, is
\* not square, is a Constant and is flagged as a 1-D array.
TransposeCase ==
    /\ size(nodes, MulLeft)[1] = size(nodes, MulRight)[1]
    /\ size(nodes, MulLeft)[1] # size(nodes, MulLeft)[2]
    /\ nodes[MulLeft].cls = "constant"
    /\ nodes[MulLeft].is_1D_array

\* After a * b with a constant: the product is over the transpose of a and
\* b in the transpose case, and over a and b themselves in every other.
ProductOverTranspose ==
    (MulCall /\ is_constant(nodes, MulLeft)) =>
        /\ last.status = "ok"
        /\ Result.cls = "mul_expr"
        /\ RightOf(Result) = MulRight
        /\ IF TransposeCase
           THEN /\ LeftOf(Result) \in NewNodes
                /\ nodes[LeftOf(Result)] = Built("transpose", <<Expr(MulLeft)>>)
           ELSE /\ LeftOf(Result) = MulLeft
                /\ NewOfClass({"transpose"}) = {}

\* C10: in a * b with a constant, the left operand of the product is the
\* transpose of a iff a has b's row count, is not square, is a Constant and
\* is a 1-D array; otherwise the product is over a and b unchanged; no call
\* changes a held operand.
C10_TransposeWorkaround ==
    [][/\ ProductOverTranspose'
       /\ SubSeq(nodes', 1, held) = SubSeq(nodes, 1, held)]_vars

C10_Witness ==
    /\ last.op = "__mul__"
    /\ TransposeCase
    /\ nodes[LeftOf(Result)].cls = "transpose"
    /\ nodes[1].cls = "constant"

====
